---- MODULE Spec2Model ----
(***************************************************************************)
(* BWC Portal backend: the monthly sales-commission calculator of          *)
(* routers/sales.py over the tables of models.py, with the payments,       *)
(* rentals, password-reset and task handlers of the other routers.         *)
(*                                                                         *)
(* Money is held in cents (Numeric(_, 2) columns).  Percentages are held   *)
(* in hundredths of a percent (Numeric(5, 2) columns).  The Decimal        *)
(* product  amount * rate / 100  is exact in Python; it is held here in    *)
(* units of 1/10000 cent ("micro": cents * hundredths of a percent) and    *)
(* rounded to cents where the value is written to a Numeric(10, 2) column. *)
(* A nullable column holds <<>> (NULL) or <<v>>; a date is <<y, m, d>>.    *)
(***************************************************************************)
EXTENDS Integers, Sequences, FiniteSets, TLC

VARIABLES
    rules,      \* table employee_commission_rules, in stored (heap) order
    sales,      \* table sales; row i has id i
    summaries,  \* table monthly_commission_summaries; row i has id i
    response,   \* the response of the last request
    session,    \* per worker: the ORM session of a request that is in flight
    requests,   \* the number of requests served so far
    payments,   \* table payments; row i has id i, <<>> once it is deleted
    rentals,    \* table rentals; row i has id i
    reset_tokens,      \* table password_reset_tokens; row i has id i
    hashed_passwords,  \* column users.hashed_password, per user id
    clock,      \* the time of day of the server, in minutes
    tasks       \* table tasks; row i has id i

vars == <<rules, sales, summaries, response, session, requests, payments,
          rentals, reset_tokens, hashed_passwords, clock, tasks>>

\* The tables of the commission and payment routers, and the others
commission_tables == <<rules, sales, summaries, session, payments>>
other_tables == <<rentals, reset_tokens, hashed_passwords, clock, tasks>>

-----------------------------------------------------------------------------
(* Bounds of the model *)
MaxRules == 2
MaxSales == 2
MaxSummaries == 3
MaxRequests == 6
MaxConcurrentRequests == 5

(* Nullable values *)
None == <<>>
Some(v) == <<v>>
Truthy(opt) == opt /= None /\ opt[1] /= 0

(* Enumerations of models.py *)
SaleType == {"consulting", "renovation"}
SaleStatus == {"lead", "proposal_sent", "negotiating", "closed_won", "closed_lost", "cancelled"}
CommissionStatus == {"pending", "calculated", "paid", "disputed"}

(* users: id -> role.  Ids outside the domain do not exist. *)
users == (1 :> "admin") @@ (2 :> "Manager") @@ (3 :> "Pillar")

check_roles(current_user, allowed_roles) == users[current_user] \in allowed_roles

\* get_password_hash: bcrypt of the password under a salt drawn at random
get_password_hash(password, salt) == <<"bcrypt", salt, password>>

\* The other tables when the service starts: every user has a password
InitOtherTables ==
    /\ rentals = <<>>
    /\ reset_tokens = <<>>
    /\ hashed_passwords = [u \in DOMAIN users |-> get_password_hash("initial", 0)]
    /\ clock = 0
    /\ tasks = <<>>

(* Column defaults *)
DefaultCommissionRate == 1000

-----------------------------------------------------------------------------
(* Dates *)
IsLeap(y) == (y % 4 = 0 /\ y % 100 /= 0) \/ y % 400 = 0

DaysInMonth(y, m) ==
    IF m = 2 THEN (IF IsLeap(y) THEN 29 ELSE 28)
    ELSE IF m \in {4, 6, 9, 11} THEN 30 ELSE 31

\* date(y, m, d) - relativedelta(days=1)
MinusOneDay(d) ==
    IF d[3] > 1 THEN <<d[1], d[2], d[3] - 1>>
    ELSE IF d[2] > 1 THEN <<d[1], d[2] - 1, DaysInMonth(d[1], d[2] - 1)>>
    ELSE <<d[1] - 1, 12, 31>>

DateLE(a, b) ==
    \/ a[1] < b[1]
    \/ a[1] = b[1] /\ a[2] < b[2]
    \/ a[1] = b[1] /\ a[2] = b[2] /\ a[3] <= b[3]

\* date(year, month, 1) raises ValueError unless the month is 1..12
ValidMonth(month) == month \in 1..12

MonthRangeDecemberInNextYear(year, month) ==
    [start_date |-> <<year, month, 1>>,
     end_date   |-> IF month = 12 THEN <<year + 1, 12, 31>>
                    ELSE MinusOneDay(<<year, month + 1, 1>>)]

MonthRange(year, month) ==
    [start_date |-> <<year, month, 1>>,
     end_date   |-> IF month = 12 THEN MinusOneDay(<<year + 1, 1, 1>>)
                    ELSE MinusOneDay(<<year, month + 1, 1>>)]

-----------------------------------------------------------------------------
(* Arithmetic *)
RECURSIVE SeqSum(_)
SeqSum(s) == IF s = <<>> THEN 0 ELSE Head(s) + SeqSum(Tail(s))

NumericTruncate(micro) == micro \div 10000

\* A value in micro units written to a Numeric(_, 2) column: PostgreSQL rounds
\* to the column's scale, ties away from zero (values here are never negative).
Numeric2(micro) == (micro + 5000) \div 10000

-----------------------------------------------------------------------------
(* Request inputs *)
Periods == {<<2025, 12>>, <<2026, 1>>, <<2026, 13>>}
Callers == {1, 3}
EmployeeIds == {1, 2, 9}
Workers == {1, 2}

NoTier == [threshold |-> None, bonus_rate |-> 0]
Tier(threshold, bonus_rate) == [threshold |-> Some(threshold), bonus_rate |-> bonus_rate]

\* CommissionRuleCreate payloads
RuleInputs ==
    { [employee_id |-> 1, sale_type |-> None, base_commission_rate |-> 1000,
       min_sale_amount |-> 50000, tiers |-> <<NoTier, NoTier, NoTier>>],
      [employee_id |-> 1, sale_type |-> None, base_commission_rate |-> 500,
       min_sale_amount |-> 0,
       tiers |-> <<Tier(10000, 1000), Tier(100000, 300), Tier(300000, 500)>>],
      [employee_id |-> 1, sale_type |-> Some("renovation"), base_commission_rate |-> 250,
       min_sale_amount |-> 0,
       tiers |-> <<Tier(0, 200), [threshold |-> None, bonus_rate |-> 300], NoTier>>],
      [employee_id |-> 2, sale_type |-> None, base_commission_rate |-> 1000,
       min_sale_amount |-> 0, tiers |-> <<NoTier, NoTier, NoTier>>] }

\* SaleCreate payloads
SaleInputs ==
    { [salesperson_id |-> 1, sale_type |-> "consulting", sale_amount |-> 100000],
      [salesperson_id |-> 1, sale_type |-> "renovation", sale_amount |-> 10004],
      [salesperson_id |-> 2, sale_type |-> "consulting", sale_amount |-> 100000] }

\* SaleStatusUpdate payloads
StatusInputs == {"negotiating", "closed_won", "closed_lost"}
CloseDateInputs == {None, Some(<<2025, 12, 31>>)}
Todays == {<<2026, 1, 1>>}

-----------------------------------------------------------------------------
(* Responses *)
Response(op, code, path, id) == [op |-> op, code |-> code, path |-> path, id |-> id]

Idle == [pc |-> "idle"]

-----------------------------------------------------------------------------
(* Sale.calculate_commission *)
Sale_calculate_commission(sale) ==
    IF sale.status = "closed_won" /\ sale.sale_amount /= 0
    THEN [sale EXCEPT
            !.commission_amount = Some(Numeric2(sale.sale_amount * sale.commission_rate)),
            !.commission_status = "calculated"]
    ELSE [sale EXCEPT !.commission_amount = Some(0)]

(* POST /sales/ *)
create_sale(current_user, sale) ==
    /\ Len(sales) < MaxSales
    /\ IF ~check_roles(current_user, {"admin", "Manager", "Head", "Pillar"})
       THEN /\ response' = Response("create_sale", 403, "denied", 0)
            /\ UNCHANGED sales
       ELSE IF sale.salesperson_id \notin DOMAIN users
       THEN /\ response' = Response("create_sale", 404, "no_salesperson", 0)
            /\ UNCHANGED sales
       ELSE /\ sales' = Append(sales,
                    [id |-> Len(sales) + 1,
                     salesperson_id |-> sale.salesperson_id,
                     sale_type |-> sale.sale_type,
                     status |-> "lead",
                     sale_amount |-> sale.sale_amount,
                     close_date |-> None,
                     commission_rate |-> DefaultCommissionRate,
                     commission_amount |-> None,
                     commission_status |-> "pending"])
            \* the row is committed; the reload that follows names an
            \* undefined variable (sale_id) and the request ends in a 500
            /\ response' = Response("create_sale", 500, "committed", 0)
    /\ UNCHANGED <<rules, summaries, session, payments>>
    /\ UNCHANGED other_tables

(* PATCH /sales/{sale_id}/status *)
update_sale_status(current_user, sale_id, status, close_date, today) ==
    /\ IF ~check_roles(current_user, {"admin", "Manager", "Head", "Pillar"})
       THEN /\ response' = Response("update_sale_status", 403, "denied", 0)
            /\ UNCHANGED sales
       ELSE IF sale_id \notin 1..Len(sales)
       THEN /\ response' = Response("update_sale_status", 404, "no_sale", 0)
            /\ UNCHANGED sales
       ELSE LET s1 == [sales[sale_id] EXCEPT
                          !.status = status,
                          !.close_date = IF close_date /= None THEN close_date ELSE @]
                s2 == IF status \in {"closed_won", "closed_lost"} /\ s1.close_date = None
                      THEN [s1 EXCEPT !.close_date = Some(today)]
                      ELSE s1
                s3 == IF status = "closed_won" THEN Sale_calculate_commission(s2) ELSE s2
            IN /\ sales' = [sales EXCEPT ![sale_id] = s3]
               \* committed; the handler returns nothing, which fails the
               \* response model
               /\ response' = Response("update_sale_status", 500, "committed", 0)
    /\ UNCHANGED <<rules, summaries, session, payments>>
    /\ UNCHANGED other_tables

(* POST /sales/commission-rules *)
create_commission_rule(current_user, rule) ==
    /\ Len(rules) < MaxRules
    /\ IF ~check_roles(current_user, {"admin", "Manager", "Head"})
       THEN /\ response' = Response("create_commission_rule", 403, "denied", 0)
            /\ UNCHANGED rules
       ELSE IF rule.employee_id \notin DOMAIN users
       THEN /\ response' = Response("create_commission_rule", 404, "no_employee", 0)
            /\ UNCHANGED rules
       ELSE /\ rules' = Append(rules,
                    [id |-> Len(rules) + 1,
                     employee_id |-> rule.employee_id,
                     sale_type |-> rule.sale_type,
                     base_commission_rate |-> rule.base_commission_rate,
                     min_sale_amount |-> rule.min_sale_amount,
                     tiers |-> rule.tiers,
                     is_active |-> TRUE])
            /\ response' = Response("create_commission_rule", 201, "created", 0)
    /\ UNCHANGED <<sales, summaries, session, payments>>
    /\ UNCHANGED other_tables

(* Soft-disabling a rule (CommissionRuleUpdate.is_active): the handler is   *)
(* not part of the source tree; only its payload schema is.                *)
deactivate_commission_rule(current_user, rule_id) ==
    /\ check_roles(current_user, {"admin", "Manager", "Head"})
    /\ rule_id \in 1..Len(rules)
    /\ rules[rule_id].is_active
    /\ rules' = [rules EXCEPT ![rule_id].is_active = FALSE]
    /\ response' = Response("update_commission_rule", 200, "updated", 0)
    /\ UNCHANGED <<sales, summaries, session, payments>>
    /\ UNCHANGED other_tables

-----------------------------------------------------------------------------
(* The commission calculator: POST /sales/calculate-commission *)

Min(S) == CHOOSE x \in S : \A y \in S : x <= y

\* The rows of a table that pass a filter, in stored order
RECURSIVE Filter(_, _)
Filter(table, ids) ==
    IF table = <<>> THEN <<>>
    ELSE IF Head(table).id \in ids THEN <<Head(table)>> \o Filter(Tail(table), ids)
    ELSE Filter(Tail(table), ids)

\* The ids of the summaries of a key; the table declares no uniqueness, so the
\* query's .first() returns any one of them
ExistingSummaryIds(employee_id, year, month) ==
    {i \in 1..Len(summaries) :
        /\ summaries[i].employee_id = employee_id
        /\ summaries[i].year = year
        /\ summaries[i].month = month}

FirstOf(ids) == IF ids = {} THEN {0} ELSE ids

AllRulesOfEmployee(employee_id) ==
    Filter(rules, {i \in 1..Len(rules) : rules[i].employee_id = employee_id})

ActiveRules(employee_id) ==
    Filter(rules, {i \in 1..Len(rules) :
                      rules[i].employee_id = employee_id /\ rules[i].is_active})

ClosedSalesAnyStatus(employee_id, range) ==
    Filter(sales, {i \in 1..Len(sales) :
        /\ sales[i].salesperson_id = employee_id
        /\ sales[i].close_date /= None
        /\ DateLE(range.start_date, sales[i].close_date[1])
        /\ DateLE(sales[i].close_date[1], range.end_date)})

ClosedSales(employee_id, range) ==
    Filter(sales, {i \in 1..Len(sales) :
        /\ sales[i].salesperson_id = employee_id
        /\ sales[i].status = "closed_won"
        /\ sales[i].close_date /= None
        /\ DateLE(range.start_date, sales[i].close_date[1])
        /\ DateLE(sales[i].close_date[1], range.end_date)})

ActiveLeadsStatusLeadOnly(employee_id) ==
    Cardinality({i \in 1..Len(sales) :
        /\ sales[i].salesperson_id = employee_id
        /\ sales[i].status = "lead"})

ActiveLeads(employee_id) ==
    Cardinality({i \in 1..Len(sales) :
        /\ sales[i].salesperson_id = employee_id
        /\ sales[i].status \in {"lead", "proposal_sent", "negotiating"}})

RuleMatches(rule, sale) ==
    /\ rule.sale_type = None \/ rule.sale_type[1] = sale.sale_type
    /\ sale.sale_amount >= rule.min_sale_amount

Max(S) == CHOOSE x \in S : \A y \in S : x >= y

LastApplicableRule(commission_rules, sale) ==
    LET matching == {i \in 1..Len(commission_rules) : RuleMatches(commission_rules[i], sale)}
    IN IF matching = {} THEN None ELSE Some(commission_rules[Max(matching)])

\* The first matching rule, or None
ApplicableRule(commission_rules, sale) ==
    LET matching == {i \in 1..Len(commission_rules) : RuleMatches(commission_rules[i], sale)}
    IN IF matching = {} THEN None ELSE Some(commission_rules[Min(matching)])

CommissionAtSaleRate(sale, rule) == sale.sale_amount * sale.commission_rate

\* (sale.sale_amount * applicable_rule.base_commission_rate) / 100, in micro
Commission(sale, rule) == sale.sale_amount * rule.base_commission_rate

\* One rule's three tiers
RuleTierBonusNonNull(rule, total_sales_amount) ==
    SeqSum([t \in 1..3 |->
        IF rule.tiers[t].threshold /= None
           /\ total_sales_amount >= rule.tiers[t].threshold[1]
        THEN total_sales_amount * rule.tiers[t].bonus_rate
        ELSE 0])

RuleTierBonus(rule, total_sales_amount) ==
    SeqSum([t \in 1..3 |->
        IF Truthy(rule.tiers[t].threshold)
           /\ total_sales_amount >= rule.tiers[t].threshold[1]
        THEN total_sales_amount * rule.tiers[t].bonus_rate
        ELSE 0])

FirstRuleTierBonus(commission_rules, total_sales_amount) ==
    IF commission_rules = <<>> THEN 0
    ELSE RuleTierBonus(commission_rules[1], total_sales_amount)

TierBonus(commission_rules, total_sales_amount) ==
    SeqSum([r \in 1..Len(commission_rules) |->
        RuleTierBonus(commission_rules[r], total_sales_amount)])

\* Lines 167-239: everything the handler computes from the rows it has read.
\* commissions[k] is the commission of closed_sales[k] in micro, or None when
\* no rule applies to it.
Compute(employee_id, year, month, commission_rules) ==
    LET range == MonthRange(year, month)
        closed_sales == ClosedSales(employee_id, range)
        total_sales_amount == SeqSum([k \in 1..Len(closed_sales) |-> closed_sales[k].sale_amount])
        applicable == [k \in 1..Len(closed_sales) |->
                          ApplicableRule(commission_rules, closed_sales[k])]
        commissions == [k \in 1..Len(closed_sales) |->
                          IF applicable[k] = None THEN None
                          ELSE Some(Commission(closed_sales[k], applicable[k][1]))]
        base_commission == SeqSum([k \in 1..Len(closed_sales) |->
                          IF commissions[k] = None THEN 0 ELSE commissions[k][1]])
        tier_bonus == TierBonus(commission_rules, total_sales_amount)
        types == {closed_sales[k].sale_type : k \in {j \in 1..Len(closed_sales) : commissions[j] /= None}}
    IN [closed_ids |-> [k \in 1..Len(closed_sales) |-> closed_sales[k].id],
        commissions |-> commissions,
        total_sales_amount |-> total_sales_amount,
        closed_deals_count |-> Len(closed_sales),
        active_leads_count |-> ActiveLeads(employee_id),
        base_commission |-> base_commission,
        tier_bonus |-> tier_bonus,
        total_commission |-> base_commission + tier_bonus,
        sales_breakdown |->
            [t \in types |->
                LET ks == {k \in 1..Len(closed_sales) :
                              commissions[k] /= None /\ closed_sales[k].sale_type = t}
                IN [count |-> Cardinality(ks),
                    total_amount |-> SeqSum([k \in 1..Len(closed_sales) |->
                        IF k \in ks THEN closed_sales[k].sale_amount ELSE 0]),
                    commission |-> SeqSum([k \in 1..Len(closed_sales) |->
                        IF k \in ks THEN commissions[k][1] ELSE 0])]]]

EmployeeAlwaysExists(employee_id) == TRUE

\* Lines 139-140: the employee's row is found
EmployeeExists(employee_id) == employee_id \in DOMAIN users

\* Line 150: the stored summary is returned as it is
NeverReturnsExisting(existing_id, recalculate) == FALSE

ReturnsExisting(existing_id, recalculate) == existing_id /= 0 /\ ~recalculate

\* Lines 200-215 at commit: the sales that got a commission carry it, rounded
\* to the scale of sales.commission_amount, Numeric(10, 2)
SalesAfterAllMarked(table, c) ==
    [i \in 1..Len(table) |->
        IF \E k \in 1..Len(c.closed_ids) : c.closed_ids[k] = i
        THEN LET k == CHOOSE k \in 1..Len(c.closed_ids) : c.closed_ids[k] = i
             IN [table[i] EXCEPT
                    !.commission_amount = Some(IF c.commissions[k] = None THEN 0
                                               ELSE Numeric2(c.commissions[k][1])),
                    !.commission_status = "calculated"]
        ELSE table[i]]

SalesAfter(table, c) ==
    [i \in 1..Len(table) |->
        IF \E k \in 1..Len(c.closed_ids) : c.closed_ids[k] = i /\ c.commissions[k] /= None
        THEN LET k == CHOOSE k \in 1..Len(c.closed_ids) : c.closed_ids[k] = i
             IN [table[i] EXCEPT
                    !.commission_amount = Some(Numeric2(c.commissions[k][1])),
                    !.commission_status = "calculated"]
        ELSE table[i]]

SummaryFieldsAccumulated(row, c) ==
    [row EXCEPT
        !.total_sales_amount = @ + c.total_sales_amount,
        !.closed_deals_count = @ + c.closed_deals_count,
        !.active_leads_count = c.active_leads_count,
        !.base_commission = @ + Numeric2(c.base_commission),
        !.tier_bonus = @ + Numeric2(c.tier_bonus),
        !.total_commission = @ + Numeric2(c.total_commission),
        !.sales_breakdown = c.sales_breakdown]

SummaryFieldsPaymentReset(row, c) ==
    [row EXCEPT
        !.total_sales_amount = c.total_sales_amount,
        !.closed_deals_count = c.closed_deals_count,
        !.active_leads_count = c.active_leads_count,
        !.base_commission = Numeric2(c.base_commission),
        !.tier_bonus = Numeric2(c.tier_bonus),
        !.total_commission = Numeric2(c.total_commission),
        !.sales_breakdown = c.sales_breakdown,
        !.payment_status = "pending",
        !.payment_date = None]

\* Lines 253-260 at commit: the computed fields as the columns hold them
\* (total_sales_amount Numeric(12, 2); the three commissions Numeric(10, 2))
SummaryFields(row, c) ==
    [row EXCEPT
        !.total_sales_amount = c.total_sales_amount,
        !.closed_deals_count = c.closed_deals_count,
        !.active_leads_count = c.active_leads_count,
        !.base_commission = Numeric2(c.base_commission),
        !.tier_bonus = Numeric2(c.tier_bonus),
        !.total_commission = Numeric2(c.total_commission),
        !.sales_breakdown = c.sales_breakdown]

\* Lines 245-250: a new row, with the column defaults of the model class
NewSummary(id, employee_id, year, month, current_user) ==
    [id |-> id, employee_id |-> employee_id, year |-> year, month |-> month,
     total_sales_amount |-> 0, closed_deals_count |-> 0, active_leads_count |-> 0,
     base_commission |-> 0, tier_bonus |-> 0, total_commission |-> 0,
     payment_status |-> "pending", payment_date |-> None,
     sales_breakdown |-> <<>>, calculated_by_id |-> current_user]

\* Lines 241-251: the row that is written: the one read at line 144, else a new one
AlwaysInsert(table, existing_id, employee_id, year, month, current_user, c) ==
    Append(table, SummaryFields(
        NewSummary(Len(table) + 1, employee_id, year, month, current_user), c))

SummariesAfterAllOfEmployee(table, existing_id, employee_id, year, month, current_user, c) ==
    IF existing_id /= 0
    THEN [j \in 1..Len(table) |->
             IF table[j].employee_id = employee_id
             THEN SummaryFields(table[j], c) ELSE table[j]]
    ELSE Append(table, SummaryFields(
             NewSummary(Len(table) + 1, employee_id, year, month, current_user), c))

SummariesAfter(table, existing_id, employee_id, year, month, current_user, c) ==
    IF existing_id /= 0
    THEN [table EXCEPT ![existing_id] = SummaryFields(@, c)]
    ELSE Append(table, SummaryFields(
             NewSummary(Len(table) + 1, employee_id, year, month, current_user), c))

\* MonthlyCommissionSummary declares no unique constraint or index on
\* (employee_id, year, month): an INSERT of a second row of a key is accepted
InsertRejected(table, existing_id, employee_id, year, month) == FALSE

calculate_monthly_commission(current_user, employee_id, year, month, recalculate) ==
    /\ \A w \in Workers : session[w] = Idle
    /\ \E existing_id \in FirstOf(ExistingSummaryIds(employee_id, year, month)) :
        IF ~check_roles(current_user, {"admin", "Manager", "Head"})
        THEN /\ response' = Response("calculate_commission", 403, "denied", 0)
             /\ UNCHANGED <<sales, summaries>>
        ELSE IF ~EmployeeExists(employee_id)
        THEN /\ response' = Response("calculate_commission", 404, "no_employee", 0)
             /\ UNCHANGED <<sales, summaries>>
        ELSE IF ReturnsExisting(existing_id, recalculate)
        THEN /\ response' = Response("calculate_commission", 200, "cached", existing_id)
             /\ UNCHANGED <<sales, summaries>>
        ELSE IF ActiveRules(employee_id) = <<>>
        THEN /\ response' = Response("calculate_commission", 400, "no_rules", 0)
             /\ UNCHANGED <<sales, summaries>>
        ELSE IF ~ValidMonth(month)
        THEN /\ response' = Response("calculate_commission", 500, "value_error", 0)
             /\ UNCHANGED <<sales, summaries>>
        ELSE LET c == Compute(employee_id, year, month, ActiveRules(employee_id))
             IN /\ sales' = SalesAfter(sales, c)
                /\ summaries' = SummariesAfter(summaries, existing_id, employee_id,
                                               year, month, current_user, c)
                /\ response' = Response("calculate_commission", 200,
                                        IF existing_id /= 0 THEN "updated" ELSE "created",
                                        IF existing_id /= 0 THEN existing_id
                                        ELSE Len(summaries) + 1)
    /\ UNCHANGED <<rules, session, payments>>
    /\ UNCHANGED other_tables

-----------------------------------------------------------------------------
(* The service with one request at a time *)
Init ==
    /\ rules = <<>>
    /\ sales = <<>>
    /\ summaries = <<>>
    /\ response = Response("none", 0, "none", 0)
    /\ session = [w \in Workers |-> Idle]
    /\ requests = 0
    /\ payments = <<>>
    /\ InitOtherTables

\* One more request is served
Serve == requests < MaxRequests /\ requests' = requests + 1

CreateSale == \E u \in Callers, s \in SaleInputs : create_sale(u, s)

UpdateSaleStatus ==
    \E u \in Callers, id \in 1..MaxSales, st \in StatusInputs,
       cd \in CloseDateInputs, today \in Todays :
        update_sale_status(u, id, st, cd, today)

CreateCommissionRule == \E u \in Callers, r \in RuleInputs : create_commission_rule(u, r)

DeactivateCommissionRule ==
    \E u \in Callers, id \in 1..MaxRules : deactivate_commission_rule(u, id)

CalculateCommission ==
    \E u \in Callers, e \in EmployeeIds, p \in Periods, r \in BOOLEAN :
        calculate_monthly_commission(u, e, p[1], p[2], r)

Next ==
    \/ Serve /\ CreateSale
    \/ Serve /\ UpdateSaleStatus
    \/ Serve /\ CreateCommissionRule
    \/ Serve /\ DeactivateCommissionRule
    \/ Serve /\ CalculateCommission

Spec == Init /\ [][Next]_vars

-----------------------------------------------------------------------------
(* The service with two requests in flight (two server processes on one    *)
(* database).  A calculation reads (lines 139-190) and later commits (line *)
(* 263); other requests are short and are taken as one step.               *)

PendingInserts == Cardinality({w \in Workers :
                      session[w] /= Idle /\ session[w].existing_id = 0})

calculate_read(w, current_user, employee_id, year, month, recalculate) ==
    /\ session[w] = Idle
    /\ \E existing_id \in FirstOf(ExistingSummaryIds(employee_id, year, month)) :
        IF ~check_roles(current_user, {"admin", "Manager", "Head"})
        THEN /\ response' = Response("calculate_commission", 403, "denied", 0)
             /\ UNCHANGED session
        ELSE IF ~EmployeeExists(employee_id)
        THEN /\ response' = Response("calculate_commission", 404, "no_employee", 0)
             /\ UNCHANGED session
        ELSE IF ReturnsExisting(existing_id, recalculate)
        THEN /\ response' = Response("calculate_commission", 200, "cached", existing_id)
             /\ UNCHANGED session
        ELSE IF ActiveRules(employee_id) = <<>>
        THEN /\ response' = Response("calculate_commission", 400, "no_rules", 0)
             /\ UNCHANGED session
        ELSE IF ~ValidMonth(month)
        THEN /\ response' = Response("calculate_commission", 500, "value_error", 0)
             /\ UNCHANGED session
        ELSE /\ existing_id = 0 => Len(summaries) + PendingInserts < MaxSummaries
             /\ session' = [session EXCEPT ![w] =
                    [pc |-> "commit", existing_id |-> existing_id,
                     employee_id |-> employee_id, year |-> year, month |-> month,
                     current_user |-> current_user,
                     c |-> Compute(employee_id, year, month, ActiveRules(employee_id))]]
             /\ UNCHANGED response
    /\ UNCHANGED <<rules, sales, summaries, payments>>
    /\ UNCHANGED other_tables

calculate_commit(w) ==
    /\ session[w] /= Idle
    /\ LET s == session[w] IN
        IF s.existing_id = 0
           /\ InsertRejected(summaries, s.existing_id, s.employee_id, s.year, s.month)
        THEN /\ response' = Response("calculate_commission", 500, "integrity_error", 0)
             /\ UNCHANGED <<sales, summaries>>
        ELSE /\ sales' = SalesAfter(sales, s.c)
             /\ summaries' = SummariesAfter(summaries, s.existing_id, s.employee_id,
                                            s.year, s.month, s.current_user, s.c)
             /\ response' = Response("calculate_commission", 200,
                                     IF s.existing_id /= 0 THEN "updated" ELSE "created",
                                     IF s.existing_id /= 0 THEN s.existing_id
                                     ELSE Len(summaries) + 1)
    /\ session' = [session EXCEPT ![w] = Idle]
    /\ UNCHANGED <<rules, requests, payments>>
    /\ UNCHANGED other_tables

SalesFlushedOnFailure(table, c) == SalesAfter(table, c)

\* What a request that fails before its commit leaves in the sales table: the
\* session is created with autocommit=False and autoflush=False and the
\* handler commits once, at line 263; get_db closes the session, which rolls
\* back what was not committed
PersistedOnFailure(table, c) == table

\* A calculation in flight fails between its queries and its commit (an
\* exception in lines 193-261, or the commit itself is refused): 500
calculate_fail(w) ==
    /\ session[w] /= Idle
    /\ sales' = PersistedOnFailure(sales, session[w].c)
    /\ response' = Response("calculate_commission", 500, "failed", 0)
    /\ session' = [session EXCEPT ![w] = Idle]
    /\ UNCHANGED <<rules, summaries, requests, payments>>
    /\ UNCHANGED other_tables

CalculateRead ==
    \E w \in Workers, u \in Callers, e \in EmployeeIds, p \in Periods, r \in BOOLEAN :
        calculate_read(w, u, e, p[1], p[2], r)

CalculateCommit == \E w \in Workers : calculate_commit(w)

CalculateFail == \E w \in Workers : calculate_fail(w)

\* One more request is accepted
Accept == requests < MaxConcurrentRequests /\ requests' = requests + 1

NextConcurrent ==
    \/ Accept /\ CreateSale
    \/ Accept /\ UpdateSaleStatus
    \/ Accept /\ CreateCommissionRule
    \/ Accept /\ DeactivateCommissionRule
    \/ Accept /\ CalculateRead
    \/ CalculateCommit
    \/ CalculateFail

SpecConcurrent == Init /\ [][NextConcurrent]_vars

-----------------------------------------------------------------------------
(* The calculator over the months of two years (2024 is a leap year), for   *)
(* one employee with one rule and one won sale that closed on the first or *)
(* the last day of some month.                                             *)

MaxRangeRequests == 2

RangeYears == {2024, 2025}

\* The calendar: the number of days of each month
MonthLengths(y) ==
    IF y = 2024 THEN <<31, 29, 31, 30, 31, 30, 31, 31, 30, 31, 30, 31>>
    ELSE <<31, 28, 31, 30, 31, 30, 31, 31, 30, 31, 30, 31>>

RangeDates ==
    {<<y, m, 1>> : y \in RangeYears, m \in 1..12}
        \cup {<<y, m, MonthLengths(y)[m]>> : y \in RangeYears, m \in 1..12}

\* The tables after create_commission_rule, create_sale and update_sale_status
\* (closed_won with close_date d)
InitRange ==
    /\ rules = <<[id |-> 1, employee_id |-> 1, sale_type |-> None,
                  base_commission_rate |-> 500, min_sale_amount |-> 0,
                  tiers |-> <<NoTier, NoTier, NoTier>>, is_active |-> TRUE]>>
    /\ \E d \in RangeDates :
          sales = <<Sale_calculate_commission(
                      [id |-> 1, salesperson_id |-> 1, sale_type |-> "consulting",
                       status |-> "closed_won", sale_amount |-> 100000,
                       close_date |-> Some(d),
                       commission_rate |-> DefaultCommissionRate,
                       commission_amount |-> None,
                       commission_status |-> "pending"])>>
    /\ summaries = <<>>
    /\ response = Response("none", 0, "none", 0)
    /\ session = [w \in Workers |-> Idle]
    /\ requests = 0
    /\ payments = <<>>
    /\ InitOtherTables

CalculateAnyMonth ==
    /\ requests < MaxRangeRequests
    /\ requests' = requests + 1
    /\ \E y \in RangeYears, m \in 1..12, r \in BOOLEAN :
          calculate_monthly_commission(1, 1, y, m, r)

NextRange == CalculateAnyMonth

SpecRange == InitRange /\ [][NextRange]_vars

-----------------------------------------------------------------------------
(* The life of one sale: PATCH /sales/{id}/status with every status, PUT    *)
(* /sales/{id}, and the calculator.                                        *)

MaxSaleRequests == 4

\* Request bodies of PUT /sales/{sale_id}: `set` holds the fields that the
\* body names (model_dump(exclude_unset=True)); a status the body does not
\* name is None in the schema object
SaleUpdateInputs ==
    {[set |-> {"status"}, status |-> Some("closed_won"), sale_amount |-> 0],
     [set |-> {"status"}, status |-> Some("lead"), sale_amount |-> 0],
     [set |-> {"status"}, status |-> Some("cancelled"), sale_amount |-> 0],
     [set |-> {"sale_amount"}, status |-> None, sale_amount |-> 200000]}

\* Lines 532-535: setattr for every field the body names
SaleWithUpdate(db_sale, sale_update) ==
    [db_sale EXCEPT
        !.status = IF "status" \in sale_update.set THEN sale_update.status[1] ELSE @,
        !.sale_amount = IF "sale_amount" \in sale_update.set
                        THEN sale_update.sale_amount ELSE @]

\* PUT /sales/{sale_id}
update_sale(current_user, sale_id, sale_update) ==
    /\ \A w \in Workers : session[w] = Idle
    /\ IF ~check_roles(current_user, {"admin", "Manager", "Head", "Pillar"})
       THEN /\ response' = Response("update_sale", 403, "denied", 0)
            /\ UNCHANGED sales
       ELSE IF sale_id \notin 1..Len(sales)
       THEN /\ response' = Response("update_sale", 404, "no_sale", 0)
            /\ UNCHANGED sales
       ELSE LET s1 == SaleWithUpdate(sales[sale_id], sale_update)
                s2 == IF sale_update.status = Some("closed_won")
                      THEN Sale_calculate_commission(s1) ELSE s1
            IN /\ sales' = [sales EXCEPT ![sale_id] = s2]
               /\ response' = Response("update_sale", 200, "updated", sale_id)
    /\ UNCHANGED <<rules, summaries, session, payments>>
    /\ UNCHANGED other_tables

\* The tables after create_commission_rule and create_sale
InitSales ==
    /\ rules = <<[id |-> 1, employee_id |-> 1, sale_type |-> None,
                  base_commission_rate |-> 500, min_sale_amount |-> 0,
                  tiers |-> <<NoTier, NoTier, NoTier>>, is_active |-> TRUE]>>
    /\ sales = <<[id |-> 1, salesperson_id |-> 1, sale_type |-> "consulting",
                  status |-> "lead", sale_amount |-> 100000,
                  close_date |-> None,
                  commission_rate |-> DefaultCommissionRate,
                  commission_amount |-> None,
                  commission_status |-> "pending"]>>
    /\ summaries = <<>>
    /\ response = Response("none", 0, "none", 0)
    /\ session = [w \in Workers |-> Idle]
    /\ requests = 0
    /\ payments = <<>>
    /\ InitOtherTables

ServeSales == requests < MaxSaleRequests /\ requests' = requests + 1

UpdateSaleStatusAny ==
    \E u \in Callers, id \in 1..MaxSales, st \in SaleStatus,
       cd \in CloseDateInputs, today \in Todays :
        update_sale_status(u, id, st, cd, today)

UpdateSale ==
    \E u \in Callers, id \in 1..MaxSales, su \in SaleUpdateInputs :
        update_sale(u, id, su)

NextSales ==
    \/ ServeSales /\ UpdateSaleStatusAny
    \/ ServeSales /\ UpdateSale
    \/ ServeSales /\ CalculateCommission

SpecSales == InitSales /\ [][NextSales]_vars

-----------------------------------------------------------------------------
(* The payments of routers/payments.py, over the summaries the calculator  *)
(* writes for one employee with one rule and one won sale.                 *)

MaxPayments == 2
MaxPaymentRequests == 6

PaymentType == {"commission_payment", "base_salary", "bonus", "car_rental_income",
                "business_expense", "office_rent", "utility_bill",
                "equipment_purchase", "other_income", "other_expense"}
PaymentStatus == {"pending", "approved", "paid", "overdue", "cancelled", "disputed"}

\* Request bodies of POST /payments/ (amounts in cents)
PaymentInputs ==
    {[amount |-> 25000, payment_type |-> "bonus",
      employee_id |-> Some(2), commission_summary_id |-> None],
     [amount |-> 100, payment_type |-> "commission_payment",
      employee_id |-> Some(1), commission_summary_id |-> Some(1)],
     [amount |-> 100, payment_type |-> "commission_payment",
      employee_id |-> Some(9), commission_summary_id |-> Some(1)],
     [amount |-> 100, payment_type |-> "other_expense",
      employee_id |-> None, commission_summary_id |-> Some(3)]}

SummaryIdInputs == 1..3
PaymentIdInputs == 1..(MaxPayments + 1)
PaymentStatusInputs == {"paid", "cancelled"}
PaidDateInputs == {None, Some(<<2026, 1, 15>>)}

\* Request bodies of PUT /payments/{payment_id}: `set` holds the fields that
\* the body names (model_dump(exclude_unset=True)), the others are not read
PaymentUpdateInputs ==
    {[set |-> {"status"}, status |-> "paid",
      commission_summary_id |-> None, amount |-> 0],
     [set |-> {"commission_summary_id"}, status |-> "pending",
      commission_summary_id |-> Some(1), amount |-> 0],
     [set |-> {"amount"}, status |-> "pending",
      commission_summary_id |-> None, amount |-> 777]}

\* The live rows of payments
PaymentIds == {i \in 1..Len(payments) : payments[i] /= None}

\* Lines 77-79: the payments that reference the summary
ExistingPayments(commission_summary_id) ==
    {i \in PaymentIds :
        payments[i][1].commission_summary_id = Some(commission_summary_id)}

\* The column defaults of Payment
NewPayment(id, amount, payment_type, employee_id, commission_summary_id, current_user) ==
    [id |-> id, amount |-> amount, payment_type |-> payment_type,
     status |-> "pending", paid_date |-> None,
     employee_id |-> employee_id, commission_summary_id |-> commission_summary_id,
     created_by_id |-> current_user, approved_by_id |-> None]

\* POST /payments/
create_payment(current_user, payment) ==
    /\ \A w \in Workers : session[w] = Idle
    /\ IF ~check_roles(current_user, {"admin", "Manager", "Head"})
       THEN /\ response' = Response("create_payment", 403, "denied", 0)
            /\ UNCHANGED payments
       ELSE IF Truthy(payment.employee_id) /\ payment.employee_id[1] \notin DOMAIN users
       THEN /\ response' = Response("create_payment", 404, "no_employee", 0)
            /\ UNCHANGED payments
       ELSE IF /\ Truthy(payment.commission_summary_id)
               /\ payment.commission_summary_id[1] \notin 1..Len(summaries)
       THEN /\ response' = Response("create_payment", 404, "no_summary", 0)
            /\ UNCHANGED payments
       ELSE /\ Len(payments) < MaxPayments
            /\ payments' = Append(payments, Some(NewPayment(
                   Len(payments) + 1, payment.amount, payment.payment_type,
                   payment.employee_id, payment.commission_summary_id, current_user)))
            /\ response' = Response("create_payment", 201, "created", Len(payments) + 1)
    /\ UNCHANGED <<rules, sales, summaries, session>>
    /\ UNCHANGED other_tables

PaymentAmountOfSales(summary) == summary.total_sales_amount

\* Line 96: the amount of the payment
CommissionPaymentAmount(summary) == summary.total_commission

\* POST /payments/commission/{commission_summary_id}
create_commission_payment(current_user, commission_summary_id) ==
    /\ \A w \in Workers : session[w] = Idle
    /\ IF ~check_roles(current_user, {"admin", "Manager", "Head"})
       THEN /\ response' = Response("create_commission_payment", 403, "denied", 0)
            /\ UNCHANGED <<payments, summaries>>
       ELSE IF commission_summary_id \notin 1..Len(summaries)
       THEN /\ response' = Response("create_commission_payment", 404, "no_summary", 0)
            /\ UNCHANGED <<payments, summaries>>
       ELSE IF ExistingPayments(commission_summary_id) /= {}
       THEN /\ response' = Response("create_commission_payment", 400, "exists", 0)
            /\ UNCHANGED <<payments, summaries>>
       ELSE LET summary == summaries[commission_summary_id] IN
            /\ Len(payments) < MaxPayments
            /\ payments' = Append(payments, Some(NewPayment(
                   Len(payments) + 1, CommissionPaymentAmount(summary),
                   "commission_payment", Some(summary.employee_id),
                   Some(commission_summary_id), current_user)))
            /\ summaries' = [summaries EXCEPT
                   ![commission_summary_id].payment_status = "pending"]
            /\ response' = Response("create_commission_payment", 201, "created",
                                    Len(payments) + 1)
    /\ UNCHANGED <<rules, sales, session>>
    /\ UNCHANGED other_tables

\* PATCH /payments/{payment_id}/status
update_payment_status(current_user, payment_id, status, paid_date, today) ==
    /\ \A w \in Workers : session[w] = Idle
    /\ IF ~check_roles(current_user, {"admin", "Manager", "Head"})
       THEN /\ response' = Response("update_payment_status", 403, "denied", 0)
            /\ UNCHANGED <<payments, summaries>>
       ELSE IF payment_id \notin PaymentIds
       THEN /\ response' = Response("update_payment_status", 404, "no_payment", 0)
            /\ UNCHANGED <<payments, summaries>>
       ELSE LET db_payment == payments[payment_id][1]
                given == IF paid_date /= None THEN paid_date ELSE db_payment.paid_date
                paid == IF status = "paid" /\ given = None THEN Some(today) ELSE given
            IN /\ payments' = [payments EXCEPT ![payment_id] =
                      Some([db_payment EXCEPT !.status = status, !.paid_date = paid])]
               /\ summaries' =
                      IF Truthy(db_payment.commission_summary_id) /\ status = "paid"
                         /\ db_payment.commission_summary_id[1] \in 1..Len(summaries)
                      THEN [summaries EXCEPT
                               ![db_payment.commission_summary_id[1]] =
                                   [@ EXCEPT !.payment_status = "paid",
                                             !.payment_date = paid]]
                      ELSE summaries
               /\ response' = Response("update_payment_status", 200, "updated", payment_id)
    /\ UNCHANGED <<rules, sales, session>>
    /\ UNCHANGED other_tables

\* Lines 250-252: setattr for every field the body names
PaymentWithUpdate(db_payment, payment_update) ==
    [db_payment EXCEPT
        !.status = IF "status" \in payment_update.set
                   THEN payment_update.status ELSE @,
        !.commission_summary_id =
                   IF "commission_summary_id" \in payment_update.set
                   THEN payment_update.commission_summary_id ELSE @,
        !.amount = IF "amount" \in payment_update.set
                   THEN payment_update.amount ELSE @]

\* PUT /payments/{payment_id}
update_payment(current_user, payment_id, payment_update) ==
    /\ \A w \in Workers : session[w] = Idle
    /\ IF ~check_roles(current_user, {"admin", "Manager", "Head"})
       THEN /\ response' = Response("update_payment", 403, "denied", 0)
            /\ UNCHANGED payments
       ELSE IF payment_id \notin PaymentIds
       THEN /\ response' = Response("update_payment", 404, "no_payment", 0)
            /\ UNCHANGED payments
       ELSE /\ payments' = [payments EXCEPT ![payment_id] =
                   Some(PaymentWithUpdate(payments[payment_id][1], payment_update))]
            /\ response' = Response("update_payment", 200, "updated", payment_id)
    /\ UNCHANGED <<rules, sales, summaries, session>>
    /\ UNCHANGED other_tables

\* POST /payments/{payment_id}/approve
approve_payment(current_user, payment_id, approve) ==
    /\ \A w \in Workers : session[w] = Idle
    /\ IF ~check_roles(current_user, {"admin", "Manager", "Head"})
       THEN /\ response' = Response("approve_payment", 403, "denied", 0)
            /\ UNCHANGED payments
       ELSE IF payment_id \notin PaymentIds
       THEN /\ response' = Response("approve_payment", 404, "no_payment", 0)
            /\ UNCHANGED payments
       ELSE /\ payments' = [payments EXCEPT ![payment_id] =
                   Some(IF approve
                        THEN [payments[payment_id][1] EXCEPT
                                 !.status = "approved",
                                 !.approved_by_id = Some(current_user)]
                        ELSE [payments[payment_id][1] EXCEPT !.status = "cancelled"])]
            /\ response' = Response("approve_payment", 200, "updated", payment_id)
    /\ UNCHANGED <<rules, sales, summaries, session>>
    /\ UNCHANGED other_tables

\* DELETE /payments/{payment_id}
delete_payment(current_user, payment_id) ==
    /\ \A w \in Workers : session[w] = Idle
    /\ IF ~check_roles(current_user, {"admin", "Manager", "Head"})
       THEN /\ response' = Response("delete_payment", 403, "denied", 0)
            /\ UNCHANGED payments
       ELSE IF payment_id \notin PaymentIds
       THEN /\ response' = Response("delete_payment", 404, "no_payment", 0)
            /\ UNCHANGED payments
       ELSE /\ payments' = [payments EXCEPT ![payment_id] = None]
            /\ response' = Response("delete_payment", 204, "deleted", payment_id)
    /\ UNCHANGED <<rules, sales, summaries, session>>
    /\ UNCHANGED other_tables

\* The tables after create_commission_rule, create_sale and update_sale_status
\* (closed_won on 31 December 2025)
InitPayments ==
    /\ rules = <<[id |-> 1, employee_id |-> 1, sale_type |-> None,
                  base_commission_rate |-> 500, min_sale_amount |-> 0,
                  tiers |-> <<NoTier, NoTier, NoTier>>, is_active |-> TRUE]>>
    /\ sales = <<Sale_calculate_commission(
                    [id |-> 1, salesperson_id |-> 1, sale_type |-> "consulting",
                     status |-> "closed_won", sale_amount |-> 100000,
                     close_date |-> Some(<<2025, 12, 31>>),
                     commission_rate |-> DefaultCommissionRate,
                     commission_amount |-> None,
                     commission_status |-> "pending"])>>
    /\ summaries = <<>>
    /\ response = Response("none", 0, "none", 0)
    /\ session = [w \in Workers |-> Idle]
    /\ requests = 0
    /\ payments = <<>>
    /\ InitOtherTables

ServePayments == requests < MaxPaymentRequests /\ requests' = requests + 1

CreatePayment == \E u \in Callers, p \in PaymentInputs : create_payment(u, p)

CreateCommissionPayment ==
    \E u \in Callers, id \in SummaryIdInputs : create_commission_payment(u, id)

UpdatePaymentStatus ==
    \E u \in Callers, id \in PaymentIdInputs, st \in PaymentStatusInputs,
       pd \in PaidDateInputs, today \in Todays :
        update_payment_status(u, id, st, pd, today)

DeletePayment == \E u \in Callers, id \in PaymentIdInputs : delete_payment(u, id)

UpdatePayment ==
    \E u \in Callers, id \in PaymentIdInputs, pu \in PaymentUpdateInputs :
        update_payment(u, id, pu)

ApprovePayment ==
    \E u \in Callers, id \in PaymentIdInputs, a \in BOOLEAN : approve_payment(u, id, a)

NextPayments ==
    \/ ServePayments /\ CalculateCommission
    \/ ServePayments /\ CreatePayment
    \/ ServePayments /\ CreateCommissionPayment
    \/ ServePayments /\ UpdatePaymentStatus
    \/ ServePayments /\ DeletePayment
    \/ ServePayments /\ UpdatePayment
    \/ ServePayments /\ ApprovePayment

SpecPayments == InitPayments /\ [][NextPayments]_vars

-----------------------------------------------------------------------------
(* The rentals of routers/rentals.py.  Company 1 and car 1 exist.           *)

MaxRentals == 2
MaxRentalRequests == 5

companies == {1}
cars == {1}
GasTankLevel == {"Empty", "1/4", "1/2", "3/4", "Full"}

\* Request bodies of POST /rentals/{company_id} and PUT /rentals/{id}/return
RentalInputs ==
    {[car_id |-> 1, start_kilometers |-> 100, gas_tank_start |-> "Full"],
     [car_id |-> 7, start_kilometers |-> 100, gas_tank_start |-> "Full"]}
RentalUpdateInputs ==
    {[end_kilometers |-> 150, gas_tank_end |-> "1/2"],
     [end_kilometers |-> 180, gas_tank_end |-> "Empty"]}
CompanyIdInputs == {1, 8}
RentalIdInputs == 1..(MaxRentals + 1)

\* POST /rentals/{company_id}
create_rental(company_id, rental) ==
    /\ IF company_id \notin companies
       THEN /\ response' = Response("create_rental", 404, "no_company", 0)
            /\ UNCHANGED rentals
       ELSE IF rental.car_id \notin cars
       THEN /\ response' = Response("create_rental", 404, "no_car", 0)
            /\ UNCHANGED rentals
       ELSE /\ Len(rentals) < MaxRentals
            /\ rentals' = Append(rentals,
                   [id |-> Len(rentals) + 1, company_id |-> company_id,
                    car_id |-> rental.car_id,
                    start_kilometers |-> rental.start_kilometers,
                    gas_tank_start |-> rental.gas_tank_start,
                    end_kilometers |-> None, gas_tank_end |-> None,
                    is_locked |-> FALSE])
            /\ response' = Response("create_rental", 201, "created", Len(rentals) + 1)
    /\ UNCHANGED <<reset_tokens, hashed_passwords, clock, tasks>>
    /\ UNCHANGED commission_tables

NeverLocked(db_rental) == FALSE

\* Line 51: `if db_rental.is_locked`
IsLocked(db_rental) == db_rental.is_locked

\* PUT /rentals/{rental_id}/return; the response names the record asked for
update_rental_on_return(rental_id, rental_update) ==
    /\ IF rental_id \notin 1..Len(rentals)
       THEN /\ response' = Response("update_rental_on_return", 404, "no_rental", rental_id)
            /\ UNCHANGED rentals
       ELSE IF IsLocked(rentals[rental_id])
       THEN /\ response' = Response("update_rental_on_return", 400, "locked", rental_id)
            /\ UNCHANGED rentals
       ELSE /\ rentals' = [rentals EXCEPT ![rental_id] =
                   [@ EXCEPT !.end_kilometers = Some(rental_update.end_kilometers),
                             !.gas_tank_end = Some(rental_update.gas_tank_end),
                             !.is_locked = TRUE]]
            /\ response' = Response("update_rental_on_return", 200, "returned", rental_id)
    /\ UNCHANGED <<reset_tokens, hashed_passwords, clock, tasks>>
    /\ UNCHANGED commission_tables

ServeRentals == requests < MaxRentalRequests /\ requests' = requests + 1

CreateRental ==
    \E c \in CompanyIdInputs, r \in RentalInputs : create_rental(c, r)

UpdateRentalOnReturn ==
    \E id \in RentalIdInputs, ru \in RentalUpdateInputs :
        update_rental_on_return(id, ru)

NextRentals ==
    \/ ServeRentals /\ CreateRental
    \/ ServeRentals /\ UpdateRentalOnReturn

SpecRentals == Init /\ [][NextRentals]_vars

-----------------------------------------------------------------------------
(* Password reset (routers/auth.py).  A token is a fresh uuid4, written     *)
(* here as the number of the token; the clock moves between requests.      *)

MaxTokens == 2
MaxAuthRequests == 4
MaxClock == 90
TokenLifetime == 60

user_emails == (1 :> "u1@bwc") @@ (2 :> "u2@bwc") @@ (3 :> "u3@bwc")

EmailInputs == {"u1@bwc", "u2@bwc", "nobody@bwc"}
TokenInputs == 1..(MaxTokens + 1)
PasswordInputs == {"initial", "secret"}
Salts == {1, 2}

\* POST /auth/request-password-reset
request_password_reset(email) ==
    /\ LET found == {u \in DOMAIN users : user_emails[u] = email} IN
       IF found = {}
       THEN /\ response' = Response("request_password_reset", 200, "no_user", 0)
            /\ UNCHANGED reset_tokens
       ELSE /\ Len(reset_tokens) < MaxTokens
            /\ reset_tokens' = Append(reset_tokens,
                   [id |-> Len(reset_tokens) + 1,
                    token |-> Len(reset_tokens) + 1,
                    user_id |-> CHOOSE u \in found : TRUE,
                    expires_at |-> clock + TokenLifetime,
                    created_at |-> clock,
                    is_used |-> FALSE])
            /\ response' = Response("request_password_reset", 200, "sent",
                                    Len(reset_tokens) + 1)
    /\ UNCHANGED <<rentals, hashed_passwords, clock, tasks>>
    /\ UNCHANGED commission_tables

TokenUsableIgnoringUse(reset_token, now) == reset_token.expires_at > now

\* Lines 224-225: the filter on is_used and expires_at
TokenUsable(reset_token, now) ==
    reset_token.is_used = FALSE /\ reset_token.expires_at > now

\* POST /auth/reset-password; the response names the token asked for
reset_password(token, new_password, salt) ==
    /\ LET usable == {i \in 1..Len(reset_tokens) :
                         /\ reset_tokens[i].token = token
                         /\ TokenUsable(reset_tokens[i], clock)}
       IN IF usable = {}
          THEN /\ response' = Response("reset_password", 400, "invalid", token)
               /\ UNCHANGED <<reset_tokens, hashed_passwords>>
          ELSE LET i == CHOOSE j \in usable : \A k \in usable : j <= k
                   user == reset_tokens[i].user_id
               IN IF user \notin DOMAIN users
                  THEN /\ response' = Response("reset_password", 404, "no_user", token)
                       /\ UNCHANGED <<reset_tokens, hashed_passwords>>
                  ELSE /\ hashed_passwords' = [hashed_passwords EXCEPT
                              ![user] = get_password_hash(new_password, salt)]
                       /\ reset_tokens' = [reset_tokens EXCEPT ![i].is_used = TRUE]
                       /\ response' = Response("reset_password", 200, "reset", token)
    /\ UNCHANGED <<rentals, clock, tasks>>
    /\ UNCHANGED commission_tables

\* Time passes between two requests
Tick ==
    /\ clock < MaxClock
    /\ \E d \in {30, 60} : clock' = clock + d
    /\ UNCHANGED <<response, requests, rentals, reset_tokens, hashed_passwords, tasks>>
    /\ UNCHANGED commission_tables

ServeAuth == requests < MaxAuthRequests /\ requests' = requests + 1

RequestPasswordReset == \E e \in EmailInputs : request_password_reset(e)

ResetPassword ==
    \E t \in TokenInputs, pw \in PasswordInputs, salt \in Salts :
        reset_password(t, pw, salt)

NextAuth ==
    \/ ServeAuth /\ RequestPasswordReset
    \/ ServeAuth /\ ResetPassword
    \/ Tick

SpecAuth == Init /\ [][NextAuth]_vars

-----------------------------------------------------------------------------
(* Tasks (routers/tasks.py, routers/groups.py).  Group 1 exists and has    *)
(* user 2 as its member.                                                   *)

MaxTasks == 2
MaxTaskRequests == 4

TaskStatus == {"new", "received", "on_process", "pending", "completed", "loose_end"}

group_members == (1 :> {2})

TaskCallers == {1, 2, 3}
TaskInputs == {[owner_id |-> None], [owner_id |-> Some(2)], [owner_id |-> Some(9)]}
GroupIdInputs == {1, 5}
TaskIdInputs == 1..(MaxTasks + 1)
\* Request bodies of PUT /tasks/{task_id}: `set` holds the fields the body names
TaskUpdateInputs ==
    {[set |-> {"status"}, status |-> Some("completed")],
     [set |-> {"status"}, status |-> Some("on_process")],
     [set |-> {"status"}, status |-> None],
     [set |-> {"title"}, status |-> None]}
TaskStatusInputs == {"new", "completed", "loose_end"}
CommentInputs == {None, Some("note")}

ValidateStatusOnly(task, status) == [task EXCEPT !.status = status]

\* Task.validate_status, which runs on every assignment to Task.status
validate_status(task, status) ==
    [task EXCEPT !.status = status, !.completed = (status = "completed")]

\* routers/dependencies.py get_task_for_update, and lines 157-161
CanUpdateTask(current_user, task) ==
    \/ task.owner_id = current_user
    \/ users[current_user] = "admin"
    \/ /\ Truthy(task.group_id)
       /\ task.group_id[1] \in DOMAIN group_members
       /\ current_user \in group_members[task.group_id[1]]

\* POST /tasks/: the schema carries `department`, which Task does not
\* declare; the constructor rejects the keyword and no task is added
create_task(current_user, task) ==
    /\ LET task_owner_id == IF task.owner_id /= None
                            THEN task.owner_id[1] ELSE current_user
       IN IF ~check_roles(current_user, {"admin"})
          THEN response' = Response("create_task", 403, "denied", 0)
          ELSE IF task_owner_id \notin DOMAIN users
          THEN response' = Response("create_task", 404, "no_owner", 0)
          ELSE response' = Response("create_task", 500, "type_error", 0)
    /\ UNCHANGED <<rentals, reset_tokens, hashed_passwords, clock, tasks>>
    /\ UNCHANGED commission_tables

\* POST /groups/{group_id}/assign-task: status and completed take the
\* column defaults
create_group_task(current_user, group_id) ==
    /\ IF group_id \notin DOMAIN group_members
       THEN /\ response' = Response("create_group_task", 404, "no_group", 0)
            /\ UNCHANGED tasks
       ELSE IF ~check_roles(current_user, {"admin"})
       THEN /\ response' = Response("create_group_task", 403, "denied", 0)
            /\ UNCHANGED tasks
       ELSE /\ Len(tasks) < MaxTasks
            /\ tasks' = Append(tasks,
                   [id |-> Len(tasks) + 1, status |-> "new", completed |-> FALSE,
                    status_comments |-> None, status_updated_by |-> None,
                    owner_id |-> current_user, group_id |-> Some(group_id)])
            /\ response' = Response("create_group_task", 200, "created", Len(tasks) + 1)
    /\ UNCHANGED <<rentals, reset_tokens, hashed_passwords, clock>>
    /\ UNCHANGED commission_tables

\* PUT /tasks/{task_id}
update_task(current_user, task_id, task_update) ==
    /\ IF task_id \notin 1..Len(tasks)
       THEN /\ response' = Response("update_task", 404, "no_task", 0)
            /\ UNCHANGED tasks
       ELSE IF ~CanUpdateTask(current_user, tasks[task_id])
       THEN /\ response' = Response("update_task", 403, "denied", 0)
            /\ UNCHANGED tasks
       ELSE LET task == tasks[task_id]
                new_status == IF "status" \in task_update.set
                              THEN task_update.status ELSE None
            IN /\ tasks' = [tasks EXCEPT ![task_id] =
                      IF new_status /= None /\ new_status[1] /= task.status
                      THEN validate_status(task, new_status[1])
                      ELSE task]
               /\ response' = Response("update_task", 200, "updated", task_id)
    /\ UNCHANGED <<rentals, reset_tokens, hashed_passwords, clock>>
    /\ UNCHANGED commission_tables

\* PUT /tasks/{task_id}/status
update_task_status(current_user, task_id, status, status_comments) ==
    /\ IF task_id \notin 1..Len(tasks)
       THEN /\ response' = Response("update_task_status", 404, "no_task", 0)
            /\ UNCHANGED tasks
       ELSE IF ~CanUpdateTask(current_user, tasks[task_id])
       THEN /\ response' = Response("update_task_status", 403, "denied", 0)
            /\ UNCHANGED tasks
       ELSE IF status = "loose_end" /\ status_comments = None
       THEN /\ response' = Response("update_task_status", 400, "no_comments", 0)
            /\ UNCHANGED tasks
       ELSE /\ tasks' = [tasks EXCEPT ![task_id] =
                   [validate_status(@, status) EXCEPT
                       !.status_comments = status_comments,
                       !.status_updated_by = Some(current_user),
                       !.completed = (status = "completed")]]
            /\ response' = Response("update_task_status", 200, "updated", task_id)
    /\ UNCHANGED <<rentals, reset_tokens, hashed_passwords, clock>>
    /\ UNCHANGED commission_tables

ServeTasks == requests < MaxTaskRequests /\ requests' = requests + 1

CreateTask == \E u \in TaskCallers, t \in TaskInputs : create_task(u, t)

CreateGroupTask ==
    \E u \in TaskCallers, g \in GroupIdInputs : create_group_task(u, g)

UpdateTask ==
    \E u \in TaskCallers, id \in TaskIdInputs, tu \in TaskUpdateInputs :
        update_task(u, id, tu)

UpdateTaskStatus ==
    \E u \in TaskCallers, id \in TaskIdInputs, st \in TaskStatusInputs,
       c \in CommentInputs :
        update_task_status(u, id, st, c)

NextTasks ==
    \/ ServeTasks /\ CreateTask
    \/ ServeTasks /\ CreateGroupTask
    \/ ServeTasks /\ UpdateTask
    \/ ServeTasks /\ UpdateTaskStatus

SpecTasks == Init /\ [][NextTasks]_vars

-----------------------------------------------------------------------------
(* Vocabulary of the properties, stated over the tables alone *)

RECURSIVE SumOver(_, _)
SumOver(f, S) ==
    IF S = {} THEN 0
    ELSE LET x == CHOOSE x \in S : TRUE IN f[x] + SumOver(f, S \ {x})

SameKey(a, b) ==
    a.employee_id = b.employee_id /\ a.year = b.year /\ a.month = b.month

SummaryIdsOf(e, y, m) ==
    {i \in 1..Len(summaries) :
        summaries[i].employee_id = e /\ summaries[i].year = y /\ summaries[i].month = m}

Authorized(u) == users[u] \in {"admin", "Manager", "Head"}

\* The last request was a calculation that computed and wrote a summary
Calculated ==
    /\ response.op = "calculate_commission"
    /\ response.path \in {"created", "updated"}

\* The sales a calculation for (e, y, m) is to select
SelectedSales(e, y, m) ==
    {i \in 1..Len(sales) :
        /\ sales[i].salesperson_id = e
        /\ sales[i].status = "closed_won"
        /\ sales[i].close_date /= None
        /\ sales[i].close_date[1][1] = y
        /\ sales[i].close_date[1][2] = m}

\* The active rules of e that match sale i, by their position in the table
MatchingRules(e, i) ==
    {j \in 1..Len(rules) :
        /\ rules[j].employee_id = e
        /\ rules[j].is_active
        /\ rules[j].sale_type = None \/ rules[j].sale_type = Some(sales[i].sale_type)
        /\ rules[j].min_sale_amount <= sales[i].sale_amount}

FirstMatchingRule(e, i) ==
    CHOOSE j \in MatchingRules(e, i) : \A k \in MatchingRules(e, i) : j <= k

\* cents is micro rounded to the cent, ties upwards
RoundedToCents(cents, micro) ==
    micro - 5000 < cents * 10000 /\ cents * 10000 <= micro + 5000

NoActiveRules(e) == ~\E j \in 1..Len(rules) : rules[j].employee_id = e /\ rules[j].is_active

-----------------------------------------------------------------------------
\* C1: with one request at a time, the summary table holds at most one row per
\* (employee, year, month): a calculation for a key that has a row updates it.
C1_OneSummaryPerKey ==
    \A i, j \in 1..Len(summaries) : SameKey(summaries[i], summaries[j]) => i = j

\* A recalculation has just updated the row of a key, and the key has one row
C1_Witness ==
    /\ response.op = "calculate_commission"
    /\ response.path = "updated"
    /\ Cardinality(SummaryIdsOf(summaries[response.id].employee_id,
                                summaries[response.id].year,
                                summaries[response.id].month)) = 1

\* C2: a calculation without recalculate for a key that has a summary answers
\* 200 with that summary and writes nothing: summaries, sales and rules are as
\* they were.
C2_ExistingSummaryReturnedUnchanged ==
    [][\A u \in Callers, e \in EmployeeIds, p \in Periods :
        (/\ Authorized(u)
         /\ SummaryIdsOf(e, p[1], p[2]) /= {}
         /\ calculate_monthly_commission(u, e, p[1], p[2], FALSE))
        => /\ response'.code = 200
           /\ response'.id \in SummaryIdsOf(e, p[1], p[2])
           /\ summaries' = summaries
           /\ sales' = sales
           /\ rules' = rules]_vars

\* The stored summary was returned although the sales it was computed from
\* have changed since
C2_Witness ==
    /\ response.op = "calculate_commission"
    /\ response.path = "cached"
    /\ summaries[response.id].closed_deals_count /=
           Cardinality(SelectedSales(summaries[response.id].employee_id,
                                     summaries[response.id].year,
                                     summaries[response.id].month))

\* C3: a calculation for an existing employee without an active rule answers
\* 400 and writes nothing, whatever the year, month and recalculate flag.
C3_NoActiveRulesIsInvalidState ==
    [][\A u \in Callers, e \in EmployeeIds, p \in Periods, r \in BOOLEAN :
        (/\ Authorized(u)
         /\ e \in DOMAIN users
         /\ NoActiveRules(e)
         /\ calculate_monthly_commission(u, e, p[1], p[2], r))
        => /\ response'.code = 400
           /\ summaries' = summaries
           /\ sales' = sales]_vars

\* C4: once two interleaved calculations of one key have both finished, the
\* key has at most one summary row.
C4_OneRowPerKeyAfterInterleaving ==
    (\A w \in Workers : session[w] = Idle)
        => \A i, j \in 1..Len(summaries) :
              SameKey(summaries[i], summaries[j]) => i = j

\* C5: every stored summary has total_commission = base_commission + tier_bonus.
C5_TotalIsBasePlusTier ==
    \A i \in 1..Len(summaries) :
        summaries[i].total_commission =
            summaries[i].base_commission + summaries[i].tier_bonus

\* C6: a computed summary's total_sales_amount is the sum of the amounts, and
\* its closed_deals_count the number, of the employee's closed_won sales whose
\* close_date is in the requested month, and of no other sale.
C6_TotalsOverSelectedSales ==
    Calculated =>
        LET row == summaries[response.id]
            sel == SelectedSales(row.employee_id, row.year, row.month)
        IN /\ row.total_sales_amount =
                  SumOver([i \in 1..Len(sales) |-> sales[i].sale_amount], sel)
           /\ row.closed_deals_count = Cardinality(sel)

\* One sale was counted while the employee's other sale, lost in the same month
\* or won in another month, was not
C6_Witness ==
    /\ Calculated
    /\ LET row == summaries[response.id] IN
        /\ row.closed_deals_count = 1
        /\ row.total_sales_amount > 0
        /\ \E j \in 1..Len(sales) :
            /\ sales[j].salesperson_id = row.employee_id
            /\ sales[j].close_date /= None
            /\ \/ /\ sales[j].status = "closed_lost"
                  /\ sales[j].close_date[1][1] = row.year
                  /\ sales[j].close_date[1][2] = row.month
               \/ /\ sales[j].status = "closed_won"
                  /\ sales[j].close_date[1][2] /= row.month

\* C7: a selected sale that some active rule of the employee matches carries
\* the commission of the first such rule in the table's order.
C7_FirstMatchingRuleWins ==
    Calculated =>
        LET row == summaries[response.id]
            e == row.employee_id
        IN \A i \in SelectedSales(e, row.year, row.month) :
              MatchingRules(e, i) /= {} =>
                  /\ sales[i].commission_amount /= None
                  /\ RoundedToCents(sales[i].commission_amount[1],
                        sales[i].sale_amount
                            * rules[FirstMatchingRule(e, i)].base_commission_rate)

\* A sale was matched by two rules of different rates
C7_Witness ==
    /\ Calculated
    /\ LET row == summaries[response.id]
           e == row.employee_id
       IN \E i \in SelectedSales(e, row.year, row.month) :
             \E j, k \in MatchingRules(e, i) :
                 /\ j < k
                 /\ rules[j].base_commission_rate /= rules[k].base_commission_rate

\* The selected sales of (e, y, m) that some active rule of e matches
MatchedSales(e, y, m) == {i \in SelectedSales(e, y, m) : MatchingRules(e, i) /= {}}

\* sale_amount * base_rate / 100 of sale i under its first matching rule, in micro
ExactCommission(e) ==
    [i \in 1..Len(sales) |->
        IF MatchingRules(e, i) = {} THEN 0
        ELSE sales[i].sale_amount * rules[FirstMatchingRule(e, i)].base_commission_rate]

\* C8: every selected sale with a matching rule carries exactly
\* sale_amount * base_rate / 100 and the status calculated, and base_commission
\* is the sum of the commissions the sales carry.
C8_ExactCommissions ==
    Calculated =>
        LET row == summaries[response.id]
            e == row.employee_id
            matched == MatchedSales(e, row.year, row.month)
        IN /\ \A i \in matched :
                /\ sales[i].commission_amount /= None
                /\ sales[i].commission_amount[1] * 10000 = ExactCommission(e)[i]
                /\ sales[i].commission_status = "calculated"
           /\ row.base_commission =
                  SumOver([i \in 1..Len(sales) |->
                              IF sales[i].commission_amount = None THEN 0
                              ELSE sales[i].commission_amount[1]], matched)

\* C8, amended: every selected sale with a matching rule carries
\* sale_amount * base_rate / 100 rounded to the cent and the status calculated,
\* and base_commission is the sum of the unrounded commissions, rounded to the
\* cent.
C8_CommissionsToTheCent ==
    Calculated =>
        LET row == summaries[response.id]
            e == row.employee_id
            matched == MatchedSales(e, row.year, row.month)
        IN /\ \A i \in matched :
                /\ sales[i].commission_amount /= None
                /\ RoundedToCents(sales[i].commission_amount[1], ExactCommission(e)[i])
                /\ sales[i].commission_status = "calculated"
           /\ RoundedToCents(row.base_commission, SumOver(ExactCommission(e), matched))

\* One rule (base rate 10, minimum 500) and one closed_won sale of 1000 in the
\* month: base 100.00, tier bonus 0, total 100.00, one deal
C8_Witness ==
    /\ Calculated
    /\ Len(rules) = 1
    /\ rules[1].base_commission_rate = 1000
    /\ rules[1].min_sale_amount = 50000
    /\ LET row == summaries[response.id] IN
        /\ row.base_commission = 10000
        /\ row.tier_bonus = 0
        /\ row.total_commission = 10000
        /\ row.closed_deals_count = 1
        /\ \E i \in SelectedSales(row.employee_id, row.year, row.month) :
            /\ sales[i].sale_amount = 100000
            /\ sales[i].commission_amount = Some(10000)
            /\ sales[i].commission_status = "calculated"

\* C9: a selected sale that no active rule of the employee matches is left as
\* it was and adds nothing to base_commission, and is counted in
\* total_sales_amount and closed_deals_count.
C9_UnmatchedSaleUntouchedButCounted ==
    [][(/\ requests' = requests + 1
        /\ response'.op = "calculate_commission"
        /\ response'.path \in {"created", "updated"})
        => LET row == summaries'[response'.id]
               e == row.employee_id
               sel == SelectedSales(e, row.year, row.month)
               matched == MatchedSales(e, row.year, row.month)
           IN /\ \A i \in sel \ matched : sales'[i] = sales[i]
              /\ RoundedToCents(row.base_commission, SumOver(ExactCommission(e), matched))
              /\ row.closed_deals_count = Cardinality(sel)
              /\ row.total_sales_amount =
                     SumOver([i \in 1..Len(sales) |-> sales[i].sale_amount], sel)]_vars

\* A sale below the minimum of the employee's only applicable rule was counted
\* and, with the total, reached that rule's summary without a commission
C9_Witness ==
    /\ Calculated
    /\ LET row == summaries[response.id]
           e == row.employee_id
       IN /\ row.closed_deals_count >= 1
          /\ row.base_commission = 0
          /\ \E i \in SelectedSales(e, row.year, row.month) :
                /\ MatchingRules(e, i) = {}
                /\ \E j \in 1..Len(rules) :
                      /\ rules[j].employee_id = e
                      /\ rules[j].is_active
                      /\ rules[j].sale_type = None
                      /\ rules[j].min_sale_amount > sales[i].sale_amount

\* total_sales_amount * bonus_rate / 100 over the tiers of the active rules of
\* e whose threshold is not null and is reached, in micro
TierBonusOverNonNull(e, total) ==
    SumOver([x \in (1..Len(rules)) \X (1..3) |->
                total * rules[x[1]].tiers[x[2]].bonus_rate],
            {x \in (1..Len(rules)) \X (1..3) :
                /\ rules[x[1]].employee_id = e
                /\ rules[x[1]].is_active
                /\ rules[x[1]].tiers[x[2]].threshold /= None
                /\ total >= rules[x[1]].tiers[x[2]].threshold[1]})

\* C10: tier_bonus is, to the cent, the sum of total_sales_amount * bonus_rate
\* / 100 over every tier of every active rule of the employee whose threshold
\* is not null and is at most total_sales_amount.
C10_TierBonusOverNonNullThresholds ==
    Calculated =>
        LET row == summaries[response.id] IN
            RoundedToCents(row.tier_bonus,
                TierBonusOverNonNull(row.employee_id, row.total_sales_amount))

\* d is a day of the calendar month (y, m)
InCalendarMonth(d, y, m) == d[1] = y /\ d[2] = m /\ d[3] \in 1..MonthLengths(y)[m]

\* C11: for every month 1..12 the sales counted are the employee's won sales
\* that closed from the first to the last calendar day of that month, so that
\* a sale that closed on 31 December of a year is counted for December of that
\* year and not for January of the next.
C11_RangeIsTheCalendarMonth ==
    Calculated =>
        LET row == summaries[response.id] IN
            row.closed_deals_count =
                Cardinality({i \in 1..Len(sales) :
                    /\ sales[i].salesperson_id = row.employee_id
                    /\ sales[i].status = "closed_won"
                    /\ sales[i].close_date /= None
                    /\ InCalendarMonth(sales[i].close_date[1], row.year, row.month)})

\* The sale that closed on 31 December 2024 was left out of January 2025 after
\* it had been counted for December 2024
C11_Witness ==
    /\ Calculated
    /\ Len(summaries) = 2
    /\ sales[1].close_date = Some(<<2024, 12, 31>>)
    /\ summaries[1].year = 2024 /\ summaries[1].month = 12
    /\ summaries[1].closed_deals_count = 1
    /\ summaries[2].year = 2025 /\ summaries[2].month = 1
    /\ summaries[2].closed_deals_count = 0

\* C12: a computed summary's active_leads_count is the number of the employee's
\* sales that are lead, proposal_sent or negotiating when it is computed,
\* whatever their dates and whatever the requested year and month.
C12_ActiveLeadsAreTheOpenSales ==
    Calculated =>
        LET row == summaries[response.id] IN
            row.active_leads_count =
                Cardinality({i \in 1..Len(sales) :
                    /\ sales[i].salesperson_id = row.employee_id
                    /\ sales[i].status \in {"lead", "proposal_sent", "negotiating"}})

\* A sale under negotiation that carries a close date of another month was
\* counted
C12_Witness ==
    /\ Calculated
    /\ LET row == summaries[response.id] IN
        /\ row.active_leads_count >= 1
        /\ \A i \in 1..Len(sales) :
              sales[i].salesperson_id = row.employee_id
              => /\ sales[i].status = "negotiating"
                 /\ sales[i].close_date /= None
                 /\ sales[i].close_date[1][2] /= row.month

\* C13: a recalculation of the key whose calculation was the request before
\* it (no sale and no rule has changed in between) stores the same
\* total_sales_amount, closed_deals_count, base_commission, tier_bonus and
\* total_commission and leaves every sale's commission_amount as it was.
C13_RecalculationReproducesTotals ==
    [][(/\ requests' = requests + 1
        /\ Calculated
        /\ response'.op = "calculate_commission"
        /\ response'.path = "updated"
        /\ response'.id = response.id)
        => LET old == summaries[response.id]
               new == summaries'[response.id]
           IN /\ new.total_sales_amount = old.total_sales_amount
              /\ new.closed_deals_count = old.closed_deals_count
              /\ new.base_commission = old.base_commission
              /\ new.tier_bonus = old.tier_bonus
              /\ new.total_commission = old.total_commission
              /\ \A i \in 1..Len(sales) :
                    sales'[i].commission_amount = sales[i].commission_amount]_vars

\* A key with a won sale, a commission and a tier bonus was calculated and
\* recalculated within five requests
C13_Witness ==
    /\ requests = 5
    /\ response.op = "calculate_commission"
    /\ response.path = "updated"
    /\ LET row == summaries[response.id] IN
        /\ row.closed_deals_count = 1
        /\ row.base_commission > 0
        /\ row.tier_bonus > 0
        /\ \E i \in SelectedSales(row.employee_id, row.year, row.month) :
              sales[i].commission_amount = Some(row.base_commission)

WithoutForeignAndDisabled(e) ==
    SelectSeq(rules, LAMBDA r : r.employee_id = e /\ r.is_active)

\* C15: a disabled rule and a rule of another employee never change a
\* calculation: base_commission and tier_bonus are what they are with those
\* rules taken out of the table, and a sale's commission is never that of such
\* a rule.
C15_OnlyOwnActiveRulesCount ==
    Calculated =>
        LET row == summaries[response.id]
            e == row.employee_id
            c == Compute(e, row.year, row.month, WithoutForeignAndDisabled(e))
        IN /\ row.base_commission = Numeric2(c.base_commission)
           /\ row.tier_bonus = Numeric2(c.tier_bonus)
           /\ \A i \in MatchedSales(e, row.year, row.month) :
                 \E j \in 1..Len(rules) :
                       /\ rules[j].employee_id = e
                       /\ rules[j].is_active
                       /\ RoundedToCents(sales[i].commission_amount[1],
                             sales[i].sale_amount * rules[j].base_commission_rate)

\* A won sale was paid by the employee's active rule while a disabled rule of
\* theirs with another rate, and with a tier the month's sales reach, matches it
C15_Witness ==
    /\ Calculated
    /\ LET row == summaries[response.id]
           e == row.employee_id
       IN /\ row.base_commission > 0
          /\ row.tier_bonus = 0
          /\ \E i \in SelectedSales(e, row.year, row.month), j \in 1..Len(rules) :
                /\ rules[j].employee_id = e
                /\ ~rules[j].is_active
                /\ rules[j].sale_type = None
                /\ rules[j].min_sale_amount <= sales[i].sale_amount
                /\ rules[j].tiers[1].threshold /= None
                /\ rules[j].tiers[1].threshold[1] > 0
                /\ rules[j].tiers[1].threshold[1] <= row.total_sales_amount
                /\ sales[i].commission_amount /=
                       Some(Numeric2(sales[i].sale_amount * rules[j].base_commission_rate))

\* C16: a calculation an authorized caller requests for an employee id that
\* does not exist answers 404 and leaves the summaries and the sales as they
\* were.
C16_UnknownEmployeeIsNotFound ==
    [][\A u \in Callers, e \in EmployeeIds, p \in Periods, r \in BOOLEAN :
        (/\ Authorized(u)
         /\ e \notin DOMAIN users
         /\ response'.op = "calculate_commission"
         /\ calculate_monthly_commission(u, e, p[1], p[2], r))
        => /\ response'.code = 404
           /\ summaries' = summaries
           /\ sales' = sales]_vars

\* The request for an unknown employee was refused while summaries and sales
\* are stored
C16_Witness ==
    /\ response.op = "calculate_commission"
    /\ response.code = 404
    /\ Len(summaries) >= 1
    /\ Len(sales) >= 1

\* C17: a calculation for a month outside 1..12 is rejected with a validation
\* error (422) and writes nothing; stated for an authorized caller and an
\* employee who exists and has an active rule, where neither 404 nor the 400
\* of the missing rules can be the answer.
C17_MonthOutOfRangeIsValidationError ==
    [][\A u \in Callers, e \in EmployeeIds, p \in Periods, r \in BOOLEAN :
        (/\ Authorized(u)
         /\ e \in DOMAIN users
         /\ ~NoActiveRules(e)
         /\ p[2] \notin 1..12
         /\ response'.op = "calculate_commission"
         /\ calculate_monthly_commission(u, e, p[1], p[2], r))
        => /\ response'.code = 422
           /\ summaries' = summaries
           /\ sales' = sales]_vars

\* C18: the breakdown of a computed summary holds, for each sale type, the
\* count, the summed amount and the summed commission of the sales of that
\* type that got a commission; over all types its commission is
\* base_commission and its count is the number of sales that matched a rule.
C18_BreakdownAddsUpToBase ==
    Calculated =>
        LET row == summaries[response.id]
            e == row.employee_id
            matched == MatchedSales(e, row.year, row.month)
            bd == row.sales_breakdown
        IN /\ DOMAIN bd = {sales[i].sale_type : i \in matched}
           /\ \A t \in DOMAIN bd :
                 LET ofType == {i \in matched : sales[i].sale_type = t} IN
                     /\ bd[t].count = Cardinality(ofType)
                     /\ bd[t].total_amount =
                            SumOver([i \in 1..Len(sales) |-> sales[i].sale_amount], ofType)
                     /\ bd[t].commission = SumOver(ExactCommission(e), ofType)
           /\ SumOver([t \in DOMAIN bd |-> bd[t].count], DOMAIN bd) = Cardinality(matched)
           /\ SumOver([t \in DOMAIN bd |-> bd[t].commission], DOMAIN bd)
                  = row.base_commission * 10000

\* C19: a calculation persists all of its result or none of it.  While it is
\* in flight the tables are not written; when it ends, either sales and
\* summaries are as they were (it failed), or the summary row of its key holds
\* its totals and every sale it gave a commission carries that commission.
C19_AllOrNothing ==
    [][\A w \in Workers :
        /\ (session[w] = Idle /\ session'[w] /= Idle)
              => sales' = sales /\ summaries' = summaries
        /\ (session[w] /= Idle /\ session'[w] = Idle)
              => \/ sales' = sales /\ summaries' = summaries
                 \/ LET s == session[w] IN
                       /\ response'.path \in {"created", "updated"}
                       /\ response'.id \in 1..Len(summaries')
                       /\ LET row == summaries'[response'.id] IN
                             /\ row.employee_id = s.employee_id
                             /\ row.year = s.year
                             /\ row.month = s.month
                             /\ row.closed_deals_count = s.c.closed_deals_count
                             /\ row.base_commission = Numeric2(s.c.base_commission)
                             /\ row.total_commission = Numeric2(s.c.total_commission)
                       /\ \A k \in 1..Len(s.c.closed_ids) :
                             s.c.commissions[k] /= None
                             => LET sale == sales'[s.c.closed_ids[k]] IN
                                   /\ sale.commission_amount =
                                          Some(Numeric2(s.c.commissions[k][1]))
                                   /\ sale.commission_status = "calculated"]_vars

\* A calculation failed before its commit: the won sale its rule matches still
\* carries the commission of the sale's own rate, and no summary was written
C19_Witness ==
    /\ response.op = "calculate_commission"
    /\ response.path = "failed"
    /\ summaries = <<>>
    /\ \E i \in 1..Len(sales) :
          /\ sales[i].status = "closed_won"
          /\ MatchingRules(sales[i].salesperson_id, i) /= {}
          /\ sales[i].commission_amount /= None
          /\ ~RoundedToCents(sales[i].commission_amount[1],
                 ExactCommission(sales[i].salesperson_id)[i])

\* The payments that reference summary sid, read from the table alone
ReferencedBy(sid) ==
    {i \in 1..Len(payments) :
        payments[i] /= None /\ payments[i][1].commission_summary_id = <<sid>>}

\* C20: generating a payment from a summary, by a caller with a permitted
\* role: 404 if the summary does not exist and 400 if some payment already
\* references it, in both cases with payments and summaries as they were;
\* otherwise exactly one payment is added, a commission payment of the
\* summary, with the summary's total_commission as amount and the summary's
\* employee as employee.
C20_PaymentFromSummary ==
    [][\A u \in Callers, sid \in SummaryIdInputs :
        (/\ requests' = requests + 1
         /\ response'.op = "create_commission_payment"
         /\ Authorized(u)
         /\ create_commission_payment(u, sid))
        => IF sid \notin 1..Len(summaries)
           THEN /\ response'.code = 404
                /\ payments' = payments
                /\ summaries' = summaries
           ELSE IF ReferencedBy(sid) /= {}
           THEN /\ response'.code = 400
                /\ payments' = payments
                /\ summaries' = summaries
           ELSE /\ response'.code = 201
                /\ Len(payments') = Len(payments) + 1
                /\ \A i \in 1..Len(payments) : payments'[i] = payments[i]
                /\ payments'[Len(payments')] /= None
                /\ LET p == payments'[Len(payments')][1] IN
                      /\ p.payment_type = "commission_payment"
                      /\ p.commission_summary_id = <<sid>>
                      /\ p.amount = summaries[sid].total_commission
                      /\ p.employee_id = <<summaries[sid].employee_id>>]_vars

\* A second payment was asked for a summary with a positive total: it was
\* refused, and the summary's one payment carries the total and the employee
C20_Witness ==
    /\ response.op = "create_commission_payment"
    /\ response.code = 400
    /\ \E sid \in 1..Len(summaries) :
          /\ summaries[sid].total_commission > 0
          /\ Cardinality(ReferencedBy(sid)) = 1
          /\ \A i \in ReferencedBy(sid) :
                /\ payments[i][1].payment_type = "commission_payment"
                /\ payments[i][1].amount = summaries[sid].total_commission
                /\ payments[i][1].employee_id = <<summaries[sid].employee_id>>

\* C21: each summary is referenced by at most one payment.
C21_AtMostOnePaymentPerSummary ==
    \A sid \in 1..Len(summaries) : Cardinality(ReferencedBy(sid)) <= 1

\* C22: a paid payment that references an existing summary implies that the
\* summary's payment_status is paid.
C22_PaidPaymentMeansPaidSummary ==
    \A i \in 1..Len(payments), sid \in 1..Len(summaries) :
        (/\ payments[i] /= None
         /\ payments[i][1].status = "paid"
         /\ payments[i][1].commission_summary_id = <<sid>>)
        => summaries[sid].payment_status = "paid"

\* C26: a recalculation that updates an existing summary keeps the row's id
\* and key, its payment_status, its payment_date and its calculated_by_id,
\* adds no row and leaves the payments alone.
C26_RecalculationKeepsPaymentFields ==
    [][(/\ requests' = requests + 1
        /\ response'.op = "calculate_commission"
        /\ response'.path = "updated")
       => /\ response'.id \in 1..Len(summaries)
          /\ Len(summaries') = Len(summaries)
          /\ payments' = payments
          /\ LET old == summaries[response'.id]
                 new == summaries'[response'.id]
             IN /\ new.id = old.id
                /\ new.employee_id = old.employee_id
                /\ new.year = old.year
                /\ new.month = old.month
                /\ new.payment_status = old.payment_status
                /\ new.payment_date = old.payment_date
                /\ new.calculated_by_id = old.calculated_by_id]_vars

\* A summary with a paid payment was recalculated and is still paid
C26_Witness ==
    /\ response.op = "calculate_commission"
    /\ response.path = "updated"
    /\ response.id \in 1..Len(summaries)
    /\ summaries[response.id].payment_status = "paid"
    /\ summaries[response.id].payment_date /= None
    /\ \E i \in ReferencedBy(response.id) : payments[i][1].status = "paid"

\* C27: a summary whose payment_status is paid is never set back to pending.
C27_PaidSummaryStaysPaid ==
    [][\A sid \in 1..Len(summaries) :
          summaries[sid].payment_status = "paid"
          => summaries'[sid].payment_status /= "pending"]_vars

\* The place of a status in lead -> proposal_sent -> negotiating -> closed
StatusRank(status) ==
    CASE status = "lead" -> 1
      [] status = "proposal_sent" -> 2
      [] status = "negotiating" -> 3
      [] OTHER -> 4

TerminalStatus == {"closed_won", "closed_lost", "cancelled"}

\* C23: no step moves a sale to an earlier status, and a sale that is
\* closed_won, closed_lost or cancelled keeps its status.
C23_StatusOnlyMovesForward ==
    [][\A i \in 1..Len(sales) :
          /\ StatusRank(sales'[i].status) >= StatusRank(sales[i].status)
          /\ sales[i].status \in TerminalStatus
                => sales'[i].status = sales[i].status]_vars

\* C24: a sale in a terminal status has a close_date.
C24_TerminalSaleHasCloseDate ==
    \A i \in 1..Len(sales) :
        sales[i].status \in TerminalStatus => sales[i].close_date /= None

\* C25: a sale whose commission_status is calculated has status closed_won.
C25_CalculatedMeansClosedWon ==
    \A i \in 1..Len(sales) :
        sales[i].commission_status = "calculated" => sales[i].status = "closed_won"

\* C28: a locked rental record never changes again (end_kilometers,
\* gas_tank_end and the lock stay as they are); a return of a record that is
\* not locked sets both end fields and locks it; a return of a locked record
\* is answered 400 and changes no rental.
C28_RentalReturnedAtMostOnce ==
    [][/\ \A i \in 1..Len(rentals) :
             rentals[i].is_locked => rentals'[i] = rentals[i]
       /\ (/\ requests' = requests + 1
           /\ response'.op = "update_rental_on_return"
           /\ response'.id \in 1..Len(rentals))
          => IF rentals[response'.id].is_locked
             THEN response'.code = 400 /\ rentals' = rentals
             ELSE /\ response'.code = 200
                  /\ rentals'[response'.id].is_locked
                  /\ rentals'[response'.id].end_kilometers /= None
                  /\ rentals'[response'.id].gas_tank_end /= None]_vars

\* A second return of a record was refused: the record is locked and holds
\* the values of its first return
C28_Witness ==
    /\ response.op = "update_rental_on_return"
    /\ response.code = 400
    /\ response.id \in 1..Len(rentals)
    /\ rentals[response.id].is_locked
    /\ rentals[response.id].end_kilometers /= None
    /\ rentals[response.id].gas_tank_end /= None

\* The rows of reset_tokens that hold the token, are not used and not expired
LiveTokens(token) ==
    {i \in 1..Len(reset_tokens) :
        /\ reset_tokens[i].token = token
        /\ ~reset_tokens[i].is_used
        /\ reset_tokens[i].expires_at > clock}

\* C29: a used token stays used; a password changes only in a reset_password
\* whose token is known, unused and not expired, and that reset changes the
\* password of the token's user alone and marks the token used; a
\* reset_password with any other token is answered 400 and changes neither a
\* password nor a token.
C29_TokenResetsAtMostOnce ==
    [][/\ \A i \in 1..Len(reset_tokens) :
             reset_tokens[i].is_used => reset_tokens'[i].is_used
       /\ hashed_passwords' /= hashed_passwords
             => /\ response'.op = "reset_password"
                /\ response'.code = 200
                /\ LiveTokens(response'.id) /= {}
       /\ (requests' = requests + 1 /\ response'.op = "reset_password")
          => IF LiveTokens(response'.id) = {}
             THEN /\ response'.code = 400
                  /\ hashed_passwords' = hashed_passwords
                  /\ reset_tokens' = reset_tokens
             ELSE /\ response'.code = 200
                  /\ \A i \in LiveTokens(response'.id) :
                        /\ reset_tokens'[i].is_used
                        /\ \A u \in DOMAIN users :
                              u /= reset_tokens[i].user_id
                              => hashed_passwords'[u] = hashed_passwords[u]]_vars

\* A token that changed a password was presented again before its expiry and
\* was refused
C29_Witness ==
    /\ response.op = "reset_password"
    /\ response.code = 400
    /\ \E i \in 1..Len(reset_tokens) :
          /\ reset_tokens[i].token = response.id
          /\ reset_tokens[i].is_used
          /\ reset_tokens[i].expires_at > clock
          /\ hashed_passwords[reset_tokens[i].user_id] /= get_password_hash("initial", 0)

\* C30: a task's completed flag is true exactly when its status is completed.
C30_CompletedIffStatusCompleted ==
    \A i \in 1..Len(tasks) :
        tasks[i].completed <=> tasks[i].status = "completed"

\* update_task moved a task to completed, and its flag is set
C30_Witness ==
    /\ response.op = "update_task"
    /\ response.code = 200
    /\ response.id \in 1..Len(tasks)
    /\ tasks[response.id].status = "completed"
    /\ tasks[response.id].completed

====
